---- MODULE Spec2Model ----
(***************************************************************************)
(* The threaded-message store of backend/database.py: two SQLite tables    *)
(* (threads, messages) with AUTOINCREMENT keys, two ON DELETE CASCADE      *)
(* foreign keys, and a nullable layout_data column.  Every public function *)
(* of database.py runs inside one get_connection() block, i.e. one         *)
(* transaction that commits when the body returns and is rolled back by    *)
(* close() when the body raises; each function is therefore one action.    *)
(***************************************************************************)
EXTENDS Integers, FiniteSets, Sequences, TLC

(* ---------------------------------------------------------------------- *)
(* Bounds of the model                                                     *)
(* ---------------------------------------------------------------------- *)
MaxThreads == 2
MaxMessages == 3
MaxLayoutEntries == 2
MaxLayoutMessages == 2
MaxApiMessages == 2
MaxConnMessages == 2

(* ---------------------------------------------------------------------- *)
(* Values                                                                  *)
(* ---------------------------------------------------------------------- *)
\* Python None / SQL NULL in an INTEGER column (row ids start at 1).
NULL == 0
\* Python None / SQL NULL in a TEXT column.
NoText == "<NULL>"
\* A Python value sqlite3 cannot bind (a dict or list from the JSON body).
Unbindable == "<dict>"

Titles == {"Demo", NoText}
WriterNames == {"A"}
Contents == {"hi"}
Blobs == {"x", "y"}
LayoutValues == Blobs \cup {NoText, Unbindable}

ThreadIds == 1..MaxThreads
MessageIds == 1..MaxMessages
\* Ids a caller may pass: every id that can be assigned, one that never is,
\* and None.
ThreadArgs == ThreadIds \cup {MaxThreads + 1}
MessageArgs == MessageIds \cup {MaxMessages + 1}

VARIABLES
    threads,      \* table threads:  id -> [title]
    messages,     \* table messages: id -> [thread_id, parent_id, writer_name, content, layout_data]
    seq_threads,  \* sqlite_sequence row of threads (AUTOINCREMENT high-water mark)
    seq_messages, \* sqlite_sequence row of messages
    last,         \* the recorded call: its name, arguments and outcome
    before,       \* both tables as they were when the recorded call began
    issued,       \* history: every id a create call has returned so far
    proc          \* the calls in flight, statement by statement (see Callers)

vars == <<threads, messages, seq_threads, seq_messages, last, before, issued, proc>>

NoLayouts == <<>>

Snapshot == [threads |-> threads, messages |-> messages]

\* message_id is the message a call names: the parent_id argument of
\* create_message, the message_id argument of the others.  id is the id the
\* call returned, text the texts it was given (the title of create_thread,
\* writer_name and content of create_message).
Call(op, thread_id, message_id, layouts, result, id) ==
    [op |-> op, thread_id |-> thread_id, message_id |-> message_id,
     layouts |-> layouts, result |-> result, id |-> id, text |-> <<>>]

CallText(call, text) == [call EXCEPT !.text = text]

\* last and before describe the final call of a run; the calls before it
\* leave them at Unrecorded.  Every call the program can make from a
\* reachable store is the final call of some run, so what holds of last and
\* before in every reachable state holds of every call.
Unrecorded == Call("", NULL, NULL, NoLayouts, "", NULL)
NoSnapshot == [threads |-> <<>>, messages |-> <<>>]

\* The ids handed out so far, with the one this call returned.
Issue(call) ==
    IF call.result = "ok" /\ call.op = "create_thread"
    THEN [issued EXCEPT !.threads = @ \cup {call.id}]
    ELSE IF call.result = "ok" /\ call.op = "create_message"
    THEN [issued EXCEPT !.messages = @ \cup {call.id}]
    ELSE issued

Record(call) ==
    /\ \/ last' = call /\ before' = Snapshot
       \/ last' = Unrecorded /\ before' = NoSnapshot
    /\ issued' = Issue(call)
    /\ UNCHANGED proc

(* ---------------------------------------------------------------------- *)
(* The storage engine's referential actions                                *)
(* ---------------------------------------------------------------------- *)
\* Variant of Cascade: no referential action fires (a connection without
\* PRAGMA foreign_keys = ON, or a key declared without ON DELETE CASCADE).
CascadeOff(msgs, S) == S

\* Variant of Cascade: the action reaches the children of the deleted rows
\* only.
CascadeChildrenOnly(msgs, S) == S \cup {x \in DOMAIN msgs : msgs[x].parent_id \in S}

\* Rows of msgs removed when the rows in S are deleted: ON DELETE CASCADE on
\* parent_id deletes every row whose parent_id names a deleted row, and so on.
RECURSIVE Cascade(_, _)
Cascade(msgs, S) ==
    LET S2 == S \cup {x \in DOMAIN msgs : msgs[x].parent_id \in S}
    IN  IF S2 = S THEN S ELSE Cascade(msgs, S2)

\* Variant of ThreadCascade: thread_id declared without ON DELETE CASCADE and
\* not enforced.
ThreadCascadeOff(msgs, t) == {}

\* Rows removed from messages when thread row t is deleted: ON DELETE CASCADE
\* on thread_id, followed by the cascade on parent_id.
ThreadCascade(msgs, t) ==
    Cascade(msgs, {x \in DOMAIN msgs : msgs[x].thread_id = t})

Restrict(f, S) == [x \in S |-> f[x]]

(* ---------------------------------------------------------------------- *)
(* Reads                                                                   *)
(* ---------------------------------------------------------------------- *)
\* get_thread_with_messages: None when the thread row is missing, else the
\* thread with the rows of messages whose thread_id is thread_id.  The rows
\* are a set: created_at, and with it ORDER BY created_at, is not modelled.
get_thread_with_messages(thread_id) ==
    IF thread_id \notin DOMAIN threads
    THEN [found |-> FALSE, id |-> thread_id, title |-> NoText, messages |-> {}]
    ELSE [found |-> TRUE, id |-> thread_id, title |-> threads[thread_id].title,
          messages |-> {[id |-> m, thread_id |-> messages[m].thread_id,
                         parent_id |-> messages[m].parent_id,
                         writer_name |-> messages[m].writer_name,
                         content |-> messages[m].content,
                         layout_data |-> messages[m].layout_data] :
                        m \in {x \in DOMAIN messages : messages[x].thread_id = thread_id}}]

\* Variant of LeftJoin: an inner join, which has no row for a thread without
\* messages.
InnerJoin(ths, msgs) ==
    {<<t, m>> \in (DOMAIN ths) \X (DOMAIN msgs) : msgs[m].thread_id = t}

\* threads t LEFT JOIN messages m ON t.id = m.thread_id: the pairs <<t.id,
\* m.id>> that match, and <<t.id, NULL>> for a thread no message matches.
LeftJoin(ths, msgs) ==
    {<<t, m>> \in (DOMAIN ths) \X (DOMAIN msgs) : msgs[m].thread_id = t}
    \cup {<<t, NULL>> : t \in {x \in DOMAIN ths : \A m \in DOMAIN msgs : msgs[m].thread_id # x}}

\* The SELECT of get_all_threads: GROUP BY t.id over the join gives one row per t.id that
\* occurs in it, COUNT(m.id) counts the rows of the group whose m.id is not
\* NULL (a set, for the same reason).
SelectAllThreads(ths, msgs) ==
    LET joined == LeftJoin(ths, msgs)
    IN  {[id |-> t, title |-> ths[t].title,
          message_count |-> Cardinality({r \in joined : r[1] = t /\ r[2] # NULL})] :
         t \in {r[1] : r \in joined}}

get_all_threads == SelectAllThreads(threads, messages)

(* ---------------------------------------------------------------------- *)
(* Calls in flight                                                         *)
(* ---------------------------------------------------------------------- *)
\* Two requests served at a time, each running one function of database.py
\* on a connection of its own.
Callers == {"a", "b"}

\* One SQL statement of a function body.
Statement(kind, thread_id, message_id, value) ==
    [kind |-> kind, thread_id |-> thread_id, message_id |-> message_id, value |-> value]

\* The database as one connection sees it.
Store(ths, msgs, seq_t, seq_m) ==
    [threads |-> ths, messages |-> msgs, seq_threads |-> seq_t, seq_messages |-> seq_m]

Committed == Store(threads, messages, seq_threads, seq_messages)
NoStore == Store(<<>>, <<>>, 0, 0)
NoResult == [found |-> FALSE, ids |-> {}, counts |-> {}]

\* A caller: where it stands in get_connection (pc), the function it runs
\* and its arguments (op), the statements its body has yet to execute
\* (todo), its connection (conn: "none", "open", "closed"), whether sqlite3
\* has opened a transaction on it and what that transaction has written
\* (txn, work), the exception its body raised ("" for none), what its
\* SELECTs returned, the messages table as its DELETE found it (snap), and
\* the steps it has gone through (trace).
Idle ==
    [pc |-> "idle", op |-> Statement("", NULL, NULL, ""), todo |-> <<>>,
     conn |-> "none", txn |-> FALSE, work |-> NoStore, raised |-> "",
     result |-> NoResult, snap |-> <<>>, trace |-> <<>>]

(* ---------------------------------------------------------------------- *)
(* Initial state: init_db() on an empty database file                      *)
(* ---------------------------------------------------------------------- *)
Init ==
    /\ threads = <<>>
    /\ messages = <<>>
    /\ seq_threads = 0
    /\ seq_messages = 0
    /\ last = Unrecorded
    /\ before = NoSnapshot
    /\ issued = [threads |-> {}, messages |-> {}]
    /\ proc = [p \in Callers |-> Idle]

\* Variant of get_connection: every statement is committed as it runs.
get_connection_autocommit(raised, stored, written) == written

\* The with block of get_connection around the statements of one call: what
\* the table holds afterwards, given what it stored before and what the
\* statements wrote.  commit() runs only when the body raised nothing;
\* otherwise close() discards the open transaction.
get_connection(raised, stored, written) == IF raised THEN stored ELSE written

\* Variant of NextRowid: INTEGER PRIMARY KEY without AUTOINCREMENT, one more
\* than the largest rowid now in the table.
NextRowidOfTable(seq, rows) ==
    IF DOMAIN rows = {} THEN 1
    ELSE 1 + CHOOSE x \in DOMAIN rows : \A y \in DOMAIN rows : y <= x

\* INTEGER PRIMARY KEY AUTOINCREMENT: one more than the largest rowid the
\* table has ever held, which sqlite_sequence keeps.
NextRowid(seq, rows) == seq + 1

(* ---------------------------------------------------------------------- *)
(* Thread operations                                                       *)
(* ---------------------------------------------------------------------- *)
create_thread(title) ==
    IF title = NoText
    THEN \* NOT NULL constraint failed: threads.title; nothing is committed
         /\ Record(CallText(Call("create_thread", NULL, NULL, NoLayouts,
                                  "IntegrityError", NULL), <<title>>))
         /\ UNCHANGED <<threads, messages, seq_threads, seq_messages>>
    ELSE LET id == NextRowid(seq_threads, threads) IN
         /\ threads' = [t \in DOMAIN threads \cup {id} |->
                          IF t = id THEN [title |-> title] ELSE threads[t]]
         /\ seq_threads' = id
         /\ Record(CallText(Call("create_thread", NULL, NULL, NoLayouts, "ok", id),
                         <<title>>))
         /\ UNCHANGED <<messages, seq_messages>>

delete_thread(thread_id) ==
    LET gone == IF thread_id \in DOMAIN threads
                THEN ThreadCascade(messages, thread_id) ELSE {} IN
    /\ threads' = Restrict(threads, DOMAIN threads \ {thread_id})
    /\ messages' = Restrict(messages, DOMAIN messages \ gone)
    /\ Record(Call("delete_thread", thread_id, NULL, NoLayouts, "ok", NULL))
    /\ UNCHANGED <<seq_threads, seq_messages>>

(* ---------------------------------------------------------------------- *)
(* Message operations                                                      *)
(* ---------------------------------------------------------------------- *)
\* The constraints of the messages table on a new row, in the tables ths
\* and msgs.
InsertConstraints(ths, msgs, id, thread_id, parent_id, writer_name, content) ==
    /\ thread_id # NULL
    /\ writer_name # NoText
    /\ content # NoText
    /\ thread_id \in DOMAIN ths
    /\ parent_id = NULL \/ parent_id \in DOMAIN msgs \cup {id}

\* Variant of InsertAllowed: the thread_id key is not enforced.
InsertAllowedNoThreadKey(id, thread_id, parent_id, writer_name, content) ==
    /\ thread_id # NULL
    /\ writer_name # NoText
    /\ content # NoText
    /\ parent_id = NULL \/ parent_id \in DOMAIN messages \cup {id}

\* The constraints SQLite checks on the INSERT of create_message: the three
\* NOT NULL columns and, with PRAGMA foreign_keys = ON, the two foreign keys.
\* A foreign key is checked against the table as it is after the statement,
\* so a row whose parent_id is its own new id satisfies the parent_id key.
InsertAllowed(id, thread_id, parent_id, writer_name, content) ==
    InsertConstraints(threads, messages, id, thread_id, parent_id, writer_name, content)

create_message(thread_id, parent_id, writer_name, content) ==
    LET id == NextRowid(seq_messages, messages) IN
    IF InsertAllowed(id, thread_id, parent_id, writer_name, content)
    THEN /\ messages' = [m \in DOMAIN messages \cup {id} |->
                           IF m = id
                           THEN [thread_id |-> thread_id, parent_id |-> parent_id,
                                 writer_name |-> writer_name, content |-> content,
                                 layout_data |-> NoText]
                           ELSE messages[m]]
         /\ seq_messages' = id
         /\ Record(CallText(Call("create_message", thread_id, parent_id, NoLayouts,
                                  "ok", id), <<writer_name, content>>))
         /\ UNCHANGED <<threads, seq_threads>>
    ELSE \* IntegrityError leaves the with block before commit()
         /\ Record(CallText(Call("create_message", thread_id, parent_id, NoLayouts,
                                  "IntegrityError", NULL), <<writer_name, content>>))
         /\ UNCHANGED <<threads, messages, seq_threads, seq_messages>>

\* Variant of delete_message: deleting an id with no row is reported as an
\* error.
delete_message_strict(message_id) ==
    IF message_id \notin DOMAIN messages
    THEN /\ Record(Call("delete_message", NULL, message_id, NoLayouts, "NotFound", NULL))
         /\ UNCHANGED <<threads, messages, seq_threads, seq_messages>>
    ELSE LET gone == Cascade(messages, {message_id}) IN
         /\ messages' = Restrict(messages, DOMAIN messages \ gone)
         /\ Record(Call("delete_message", NULL, message_id, NoLayouts, "ok", NULL))
         /\ UNCHANGED <<threads, seq_threads, seq_messages>>

delete_message(message_id) ==
    LET gone == Cascade(messages, {message_id} \cap DOMAIN messages) IN
    /\ messages' = Restrict(messages, DOMAIN messages \ gone)
    /\ Record(Call("delete_message", NULL, message_id, NoLayouts, "ok", NULL))
    /\ UNCHANGED <<threads, seq_threads, seq_messages>>

(* ---------------------------------------------------------------------- *)
(* Layout cache                                                            *)
(* ---------------------------------------------------------------------- *)
\* UPDATE messages SET layout_data = ? WHERE id = ? [AND thread_id = ?]
SetLayout(msgs, rows, layout_data) ==
    [m \in DOMAIN msgs |->
        IF m \in rows THEN [msgs[m] EXCEPT !.layout_data = layout_data] ELSE msgs[m]]

update_message_layout(message_id, layout_data) ==
    IF layout_data = Unbindable
    THEN /\ Record(Call("update_message_layout", NULL, message_id, NoLayouts,
                         "ProgrammingError", NULL))
         /\ UNCHANGED <<threads, messages, seq_threads, seq_messages>>
    ELSE /\ messages' = SetLayout(messages, {message_id} \cap DOMAIN messages, layout_data)
         /\ Record(Call("update_message_layout", NULL, message_id,
                         <<<<message_id, layout_data>>>>, "ok", NULL))
         /\ UNCHANGED <<threads, seq_threads, seq_messages>>

\* Variant of LayoutTarget: the UPDATE of update_message_layout, without the
\* thread filter.
LayoutTargetAnyThread(msgs, thread_id, message_id) ==
    {m \in DOMAIN msgs : m = message_id}

\* The rows the UPDATE of update_thread_layouts matches for one entry.
LayoutTarget(msgs, thread_id, message_id) ==
    {m \in DOMAIN msgs : m = message_id /\ msgs[m].thread_id = thread_id}

\* Variant of ApplyLayouts: the loop body returns after the first entry.
ApplyLayoutsFirstOnly(msgs, thread_id, layouts) ==
    IF layouts = <<>>
    THEN [raised |-> FALSE, msgs |-> msgs]
    ELSE LET entry == Head(layouts) IN
         IF entry[2] = Unbindable
         THEN [raised |-> TRUE, msgs |-> msgs]
         ELSE [raised |-> FALSE,
               msgs |-> [m \in DOMAIN msgs |->
                           IF m = entry[1] /\ msgs[m].thread_id = thread_id
                           THEN [msgs[m] EXCEPT !.layout_data = entry[2]] ELSE msgs[m]]]

\* The for loop of update_thread_layouts over layouts.items(), in order; a
\* value sqlite3 cannot bind raises at its entry.
RECURSIVE ApplyLayouts(_, _, _)
ApplyLayouts(msgs, thread_id, layouts) ==
    IF layouts = <<>>
    THEN [raised |-> FALSE, msgs |-> msgs]
    ELSE LET entry == Head(layouts) IN
         IF entry[2] = Unbindable
         THEN [raised |-> TRUE, msgs |-> msgs]
         ELSE ApplyLayouts(SetLayout(msgs, LayoutTarget(msgs, thread_id, entry[1]), entry[2]),
                           thread_id, Tail(layouts))

update_thread_layouts(thread_id, layouts) ==
    LET done == ApplyLayouts(messages, thread_id, layouts) IN
    IF done.raised
    THEN \* the exception skips commit(); close() rolls the updates back
         /\ messages' = get_connection(TRUE, messages, done.msgs)
         /\ Record(Call("update_thread_layouts", thread_id, NULL, layouts,
                         "ProgrammingError", NULL))
         /\ UNCHANGED <<threads, seq_threads, seq_messages>>
    ELSE /\ messages' = get_connection(FALSE, messages, done.msgs)
         /\ Record(Call("update_thread_layouts", thread_id, NULL, layouts, "ok", NULL))
         /\ UNCHANGED <<threads, seq_threads, seq_messages>>

\* Variant of clear_thread_layouts: the UPDATE filters on id instead of
\* thread_id.
clear_thread_layouts_by_id(thread_id) ==
    /\ messages' = [m \in DOMAIN messages |->
                       IF m = thread_id
                       THEN [messages[m] EXCEPT !.layout_data = NoText] ELSE messages[m]]
    /\ Record(Call("clear_thread_layouts", thread_id, NULL, NoLayouts, "ok", NULL))
    /\ UNCHANGED <<threads, seq_threads, seq_messages>>

\* Variant of clear_thread_layouts: the UPDATE has no WHERE clause.
clear_thread_layouts_everywhere(thread_id) ==
    /\ messages' = SetLayout(messages, DOMAIN messages, NoText)
    /\ Record(Call("clear_thread_layouts", thread_id, NULL, NoLayouts, "ok", NULL))
    /\ UNCHANGED <<threads, seq_threads, seq_messages>>

clear_thread_layouts(thread_id) ==
    /\ messages' = SetLayout(messages,
                             {m \in DOMAIN messages : messages[m].thread_id = thread_id},
                             NoText)
    /\ Record(Call("clear_thread_layouts", thread_id, NULL, NoLayouts, "ok", NULL))
    /\ UNCHANGED <<threads, seq_threads, seq_messages>>

(* ---------------------------------------------------------------------- *)
(* The functions of database.py, statement by statement                    *)
(* ---------------------------------------------------------------------- *)
\* The statements of a function body, in the order the body executes them.
RECURSIVE LayoutStatements(_, _)
LayoutStatements(thread_id, layouts) ==
    IF layouts = <<>> THEN <<>>
    ELSE <<Statement("update_layout", thread_id, Head(layouts)[1], Head(layouts)[2])>>
         \o LayoutStatements(thread_id, Tail(layouts))

Program(op, layouts) ==
    CASE op.kind = "get_all_threads" -> <<Statement("select_all", NULL, NULL, "")>>
      [] op.kind = "get_thread_with_messages" ->
            <<Statement("select_thread", op.thread_id, NULL, ""),
              Statement("select_messages", op.thread_id, NULL, "")>>
      [] op.kind = "create_thread" -> <<Statement("insert_thread", NULL, NULL, op.value)>>
      [] op.kind = "delete_thread" -> <<Statement("delete_thread", op.thread_id, NULL, "")>>
      [] op.kind = "create_message" ->
            <<Statement("insert_message", op.thread_id, op.message_id, op.value)>>
      [] op.kind = "delete_message" -> <<Statement("delete_message", NULL, op.message_id, "")>>
      [] op.kind = "update_message_layout" ->
            <<Statement("update_layout", NULL, op.message_id, op.value)>>
      [] op.kind = "update_thread_layouts" -> LayoutStatements(op.thread_id, layouts)
      [] op.kind = "clear_thread_layouts" ->
            <<Statement("clear_layouts", op.thread_id, NULL, "")>>

Writes(st) == st.kind \notin {"select_all", "select_thread", "select_messages"}

\* The rows a DELETE has left without the row they reference; ON DELETE
\* CASCADE removes them before the statement ends.
Dangling(s) ==
    {m \in DOMAIN s.messages :
        \/ s.messages[m].thread_id \notin DOMAIN s.threads
        \/ s.messages[m].parent_id # NULL /\ s.messages[m].parent_id \notin DOMAIN s.messages}

\* What executing st on the store s gives: the exception raised ("" for
\* none), the store afterwards, what the SELECTs have returned, and whether
\* the body returns early.  A DELETE removes its row; the cascade follows in
\* steps of its own, each removing the rows then dangling.
Outcome(raised, s, result, return) ==
    [raised |-> raised, store |-> s, result |-> result, return |-> return]

Execute(st, s, result) ==
    CASE st.kind = "select_all" ->
            Outcome("", s, [result EXCEPT !.counts = SelectAllThreads(s.threads, s.messages)],
                    FALSE)
      [] st.kind = "select_thread" ->
            Outcome("", s, [result EXCEPT !.found = st.thread_id \in DOMAIN s.threads],
                    st.thread_id \notin DOMAIN s.threads)
      [] st.kind = "select_messages" ->
            Outcome("", s,
                    [result EXCEPT !.ids = {m \in DOMAIN s.messages :
                                               s.messages[m].thread_id = st.thread_id}],
                    FALSE)
      [] st.kind = "insert_thread" ->
            IF st.value = NoText
            THEN Outcome("IntegrityError", s, result, FALSE)
            ELSE LET id == NextRowid(s.seq_threads, s.threads) IN
                 Outcome("", [s EXCEPT !.threads = [t \in DOMAIN s.threads \cup {id} |->
                                       IF t = id THEN [title |-> st.value] ELSE s.threads[t]],
                                       !.seq_threads = id],
                         result, FALSE)
      [] st.kind = "insert_message" ->
            LET id == NextRowid(s.seq_messages, s.messages) IN
            IF InsertConstraints(s.threads, s.messages, id, st.thread_id, st.message_id,
                                 "A", st.value)
            THEN Outcome("", [s EXCEPT !.messages = [m \in DOMAIN s.messages \cup {id} |->
                                 IF m = id
                                 THEN [thread_id |-> st.thread_id, parent_id |-> st.message_id,
                                       writer_name |-> "A", content |-> st.value,
                                       layout_data |-> NoText]
                                 ELSE s.messages[m]],
                                 !.seq_messages = id],
                         result, FALSE)
            ELSE Outcome("IntegrityError", s, result, FALSE)
      [] st.kind = "delete_thread" ->
            Outcome("", [s EXCEPT !.threads = Restrict(@, DOMAIN @ \ {st.thread_id})],
                    result, FALSE)
      [] st.kind = "delete_message" ->
            Outcome("", [s EXCEPT !.messages = Restrict(@, DOMAIN @ \ {st.message_id})],
                    result, FALSE)
      [] st.kind = "cascade" ->
            Outcome("", [s EXCEPT !.messages = Restrict(@, DOMAIN @ \ Dangling(s))],
                    result, FALSE)
      [] st.kind = "update_layout" ->
            IF st.value = Unbindable
            THEN Outcome("ProgrammingError", s, result, FALSE)
            ELSE Outcome("", [s EXCEPT !.messages = SetLayout(@,
                                  IF st.thread_id = NULL
                                  THEN {st.message_id} \cap DOMAIN @
                                  ELSE LayoutTarget(@, st.thread_id, st.message_id),
                                  st.value)],
                         result, FALSE)
      [] st.kind = "clear_layouts" ->
            Outcome("", [s EXCEPT !.messages = SetLayout(@,
                             {m \in DOMAIN @ : @[m].thread_id = st.thread_id}, NoText)],
                    result, FALSE)

\* Variant of Visible: a SELECT sees what another connection has written
\* and not yet committed.
VisibleUncommitted(p) ==
    IF proc[p].txn THEN proc[p].work
    ELSE IF \E q \in Callers : proc[q].txn
         THEN proc[CHOOSE q \in Callers : proc[q].txn].work
         ELSE Committed

\* The store a statement of p works on: what p's open transaction has
\* written so far, else what is committed.
Visible(p) == IF proc[p].txn THEN proc[p].work ELSE Committed

\* Variant of AfterBody: no try/finally around the yield.
AfterBodyNoFinally(raised) == IF raised THEN "done" ELSE "commit"

\* Where get_connection goes when the body of the with block ends: on to
\* conn.commit() when it ended without an exception (a return included),
\* straight to the finally clause when it raised.
AfterBody(raised) == IF raised THEN "close" ELSE "commit"

\* sqlite3.connect, the PRAGMA and the yield: the body starts.
call(p, op, layouts) ==
    /\ proc[p].pc = "idle"
    /\ proc' = [proc EXCEPT ![p] =
                  [Idle EXCEPT !.op = op, !.todo = Program(op, layouts),
                               !.conn = "open", !.trace = <<"acquire">>,
                               !.pc = IF Program(op, layouts) = <<>>
                                      THEN AfterBody(FALSE) ELSE "body"]]
    /\ UNCHANGED <<threads, messages, seq_threads, seq_messages, last, before, issued>>

\* The next statement of the body.  The first writing statement opens a
\* transaction; while another connection has one open it fails with
\* "database is locked" once the busy timeout has passed.
execute(p) ==
    /\ proc[p].pc = "body"
    /\ LET me == proc[p]
           st == Head(me.todo)
           locked == Writes(st) /\ ~me.txn /\ \E q \in Callers \ {p} : proc[q].txn
           s == Visible(p)
           out == IF locked THEN Outcome("OperationalError", s, me.result, FALSE)
                  ELSE Execute(st, s, me.result)
           cascade == IF Writes(st) /\ Dangling(out.store) # {}
                      THEN <<Statement("cascade", NULL, NULL, "")>> ELSE <<>>
           rest == IF out.raised # "" \/ out.return THEN <<>>
                   ELSE cascade \o Tail(me.todo)
       IN  proc' = [proc EXCEPT ![p] =
                      [me EXCEPT !.todo = rest,
                                 !.txn = me.txn \/ (Writes(st) /\ ~locked),
                                 !.work = IF Writes(st) /\ ~locked THEN out.store ELSE me.work,
                                 !.raised = out.raised,
                                 !.result = out.result,
                                 !.snap = IF st.kind \in {"delete_thread", "delete_message"}
                                             /\ ~locked
                                          THEN s.messages ELSE me.snap,
                                 !.trace = IF st.kind = "cascade" THEN @
                                           ELSE Append(@, "execute"),
                                 !.pc = IF rest = <<>> THEN AfterBody(out.raised # "")
                                        ELSE "body"]]
    /\ UNCHANGED <<threads, messages, seq_threads, seq_messages, last, before, issued>>

\* conn.commit(): what the transaction wrote becomes the database.
commit(p) ==
    /\ proc[p].pc = "commit"
    /\ IF proc[p].txn
       THEN /\ threads' = proc[p].work.threads
            /\ messages' = proc[p].work.messages
            /\ seq_threads' = proc[p].work.seq_threads
            /\ seq_messages' = proc[p].work.seq_messages
       ELSE UNCHANGED <<threads, messages, seq_threads, seq_messages>>
    /\ proc' = [proc EXCEPT ![p] = [@ EXCEPT !.pc = "close", !.txn = FALSE,
                                             !.work = NoStore,
                                             !.trace = Append(@, "commit")]]
    /\ UNCHANGED <<last, before, issued>>

\* conn.close() in the finally clause: a transaction still open is dropped.
close(p) ==
    /\ proc[p].pc = "close"
    /\ proc' = [proc EXCEPT ![p] = [@ EXCEPT !.pc = "done", !.conn = "closed",
                                             !.txn = FALSE, !.work = NoStore,
                                             !.trace = Append(@, "release")]]
    /\ UNCHANGED <<threads, messages, seq_threads, seq_messages, last, before, issued>>

\* The function returns or the exception leaves it.
return(p) ==
    /\ proc[p].pc = "done"
    /\ proc' = [proc EXCEPT ![p] = Idle]
    /\ UNCHANGED <<threads, messages, seq_threads, seq_messages, last, before, issued>>

(* ---------------------------------------------------------------------- *)
(* The routes that validate a request body before calling the store         *)
(* ---------------------------------------------------------------------- *)
\* A JSON body is a function from its keys to their values; a request
\* without a body, and the body {}, have no key.  Missing marks the text of
\* a key the body does not hold.
Missing == "<missing>"

\* data.get(key)
Get(data, key) == IF key \in DOMAIN data THEN data[key] ELSE NULL
TextOf(data, key) == IF key \in DOMAIN data THEN data[key] ELSE Missing

\* POST /api/threads: 400 when the body is empty or holds no title, else
\* database.create_thread(data['title']); an exception of the store leaves
\* the route as it was raised.
api_create_thread(data) ==
    IF DOMAIN data = {} \/ "title" \notin DOMAIN data
    THEN /\ Record(CallText(Call("create_thread", NULL, NULL, NoLayouts,
                                  "ValidationError", NULL), <<Missing>>))
         /\ UNCHANGED <<threads, messages, seq_threads, seq_messages>>
    ELSE create_thread(data["title"])

\* POST /api/messages: 400 when the body is empty or lacks thread_id,
\* writer_name or content, else database.create_message with
\* data.get('parent_id').
api_create_message(data) ==
    IF \/ DOMAIN data = {}
       \/ \E field \in {"thread_id", "writer_name", "content"} : field \notin DOMAIN data
    THEN /\ Record(CallText(Call("create_message", Get(data, "thread_id"),
                                  Get(data, "parent_id"), NoLayouts,
                                  "ValidationError", NULL),
                             <<TextOf(data, "writer_name"), TextOf(data, "content")>>))
         /\ UNCHANGED <<threads, messages, seq_threads, seq_messages>>
    ELSE create_message(data["thread_id"], Get(data, "parent_id"),
                        data["writer_name"], data["content"])

(* ---------------------------------------------------------------------- *)
(* Inputs and specifications                                               *)
(* ---------------------------------------------------------------------- *)
\* A dict has one entry per key: the item sequences of at most n entries
\* with pairwise distinct keys.
LayoutDicts(keys, values, n) ==
    {s \in UNION {[1..k -> keys \X values] : k \in 0..n} :
        \A i, j \in DOMAIN s : i # j => s[i][1] # s[j][1]}

\* No call has been recorded yet: the run goes on.
Open == last = Unrecorded

\* Every operation of the store, with the tree-shaping inputs (threads,
\* parents, deletes) at full width and one layout blob.
Next ==
    \/ Open /\ seq_threads < MaxThreads /\ \E title \in Titles : create_thread(title)
    \/ Open /\ \E t \in ThreadArgs : delete_thread(t)
    \/ /\ Open /\ seq_messages < MaxMessages
       /\ \E t \in ThreadArgs \cup {NULL}, p \in MessageArgs \cup {NULL},
             w \in WriterNames, c \in Contents : create_message(t, p, w, c)
    \/ Open /\ \E m \in MessageArgs : delete_message(m)
    \/ Open /\ \E m \in MessageArgs : update_message_layout(m, "x")
    \/ Open /\ \E t \in ThreadArgs, l \in LayoutDicts(MessageArgs, {"x"}, 1) :
          update_thread_layouts(t, l)
    \/ Open /\ \E t \in ThreadArgs : clear_thread_layouts(t)

Spec == Init /\ [][Next]_vars

\* The operations that shape the message trees, with the same inputs.
NextTree ==
    \/ Open /\ seq_threads < MaxThreads /\ \E title \in Titles : create_thread(title)
    \/ Open /\ \E t \in ThreadArgs : delete_thread(t)
    \/ /\ Open /\ seq_messages < MaxMessages
       /\ \E t \in ThreadArgs \cup {NULL}, p \in MessageArgs \cup {NULL},
             w \in WriterNames, c \in Contents : create_message(t, p, w, c)
    \/ Open /\ \E m \in MessageArgs : delete_message(m)

SpecTree == Init /\ [][NextTree]_vars

\* Every operation of the store, with the layout inputs at full width (two
\* blobs, None, an unbindable value, dicts of several entries) over a flat
\* set of messages.
LayoutMessageArgs == 1..(MaxLayoutMessages + 1)

NextLayout ==
    \/ Open /\ seq_threads < MaxThreads /\ create_thread("Demo")
    \/ Open /\ \E t \in ThreadArgs : delete_thread(t)
    \/ /\ Open /\ seq_messages < MaxLayoutMessages
       /\ \E t \in ThreadIds, w \in WriterNames, c \in Contents :
             create_message(t, NULL, w, c)
    \/ Open /\ \E m \in LayoutMessageArgs : delete_message(m)
    \/ Open /\ \E m \in LayoutMessageArgs, v \in LayoutValues : update_message_layout(m, v)
    \/ Open /\ \E t \in ThreadIds,
          l \in LayoutDicts(LayoutMessageArgs, Blobs \cup {Unbindable}, MaxLayoutEntries) :
          update_thread_layouts(t, l)
    \/ Open /\ \E t \in ThreadArgs : clear_thread_layouts(t)

SpecLayout == Init /\ [][NextLayout]_vars

\* The store driven through the two validating routes, with bodies that
\* hold, lack, null or leave empty each required field.
ThreadBodies ==
    {<<>>, [name |-> "Demo"]} \cup {[title |-> v] : v \in {"Demo", "", NoText}}

MessageBodies ==
    {<<>>}
    \cup {[thread_id |-> t, parent_id |-> p, writer_name |-> w, content |-> c] :
            t \in ThreadIds \cup {NULL}, p \in {NULL, 1},
            w \in {"A", "", NoText}, c \in {"hi", "", NoText}}
    \cup {[thread_id |-> t, writer_name |-> "A", content |-> "hi"] : t \in ThreadIds}
    \cup {[writer_name |-> "A", content |-> "hi"],
          [thread_id |-> 1, content |-> "hi"],
          [thread_id |-> 1, writer_name |-> "A"]}

NextApi ==
    \/ Open /\ seq_threads < MaxThreads /\ \E data \in ThreadBodies : api_create_thread(data)
    \/ Open /\ \E t \in ThreadArgs : delete_thread(t)
    \/ /\ Open /\ seq_messages < MaxApiMessages
       /\ \E data \in MessageBodies : api_create_message(data)
    \/ Open /\ \E m \in 1..(MaxApiMessages + 1) : delete_message(m)

SpecApi == Init /\ [][NextApi]_vars

\* Two callers at a time, statement by statement: caller "a" runs any
\* function of database.py, caller "b" the two reading functions and
\* delete_message.
ConnMessageArgs == 1..MaxConnMessages

Creating(kind) == Cardinality({q \in Callers : proc[q].op.kind = kind})

NextConn ==
    \/ \E p \in Callers : call(p, Statement("get_all_threads", NULL, NULL, ""), NoLayouts)
    \/ \E p \in Callers, t \in ThreadArgs :
          call(p, Statement("get_thread_with_messages", t, NULL, ""), NoLayouts)
    \/ /\ seq_threads + Creating("create_thread") < MaxThreads
       /\ \E title \in Titles :
             call("a", Statement("create_thread", NULL, NULL, title), NoLayouts)
    \/ \E t \in ThreadIds : call("a", Statement("delete_thread", t, NULL, ""), NoLayouts)
    \/ /\ seq_messages + Creating("create_message") < MaxConnMessages
       /\ \E t \in ThreadArgs, m \in ConnMessageArgs \cup {NULL} :
             call("a", Statement("create_message", t, m, "hi"), NoLayouts)
    \/ \E p \in Callers, m \in ConnMessageArgs :
          call(p, Statement("delete_message", NULL, m, ""), NoLayouts)
    \/ \E m \in ConnMessageArgs, v \in {"x", Unbindable} :
          call("a", Statement("update_message_layout", NULL, m, v), NoLayouts)
    \/ \E t \in ThreadIds, l \in LayoutDicts(ConnMessageArgs, {"x", Unbindable}, 1) :
          call("a", Statement("update_thread_layouts", t, NULL, ""), l)
    \/ \E t \in ThreadIds : call("a", Statement("clear_thread_layouts", t, NULL, ""), NoLayouts)
    \/ \E p \in Callers : execute(p)
    \/ \E p \in Callers : commit(p)
    \/ \E p \in Callers : close(p)
    \/ \E p \in Callers : return(p)

SpecConn == Init /\ [][NextConn]_vars

(* ---------------------------------------------------------------------- *)
(* Notions the properties are stated with                                  *)
(* ---------------------------------------------------------------------- *)
\* The proper ancestors of x in msgs: the rows met by following parent_id
\* upwards from x (x itself when the walk comes back to it).
RECURSIVE Up(_, _, _)
Up(msgs, x, seen) ==
    LET p == msgs[x].parent_id IN
    IF p = NULL \/ p \notin DOMAIN msgs \/ p \in seen
    THEN seen
    ELSE Up(msgs, p, seen \cup {p})

Ancestors(msgs, x) == Up(msgs, x, {})

\* The ids of the messages get_thread_with_messages lists for some thread.
Listed == UNION {{r.id : r \in get_thread_with_messages(t).messages} : t \in ThreadArgs}

\* The row get_thread_with_messages(t) returns for message m: a set of at
\* most one row.
ListedRow(t, m) == {r \in get_thread_with_messages(t).messages : r.id = m}

(* ---------------------------------------------------------------------- *)
(* C1  After delete_message(m) on an existing m, neither m nor any message *)
(* that had m as an ancestor exists, and no thread lists any of them.      *)
(* ---------------------------------------------------------------------- *)
C1_DeleteMessageCascades ==
    (last.op = "delete_message" /\ last.message_id \in DOMAIN before.messages) =>
        \A x \in DOMAIN before.messages :
            (x = last.message_id \/ last.message_id \in Ancestors(before.messages, x)) =>
                x \notin DOMAIN messages /\ x \notin Listed

\* delete_message removed the root of a chain root <- child <- grandchild.
C1_Witness ==
    /\ last.op = "delete_message"
    /\ last.message_id \in DOMAIN before.messages
    /\ before.messages[last.message_id].parent_id = NULL
    /\ \E b, c \in DOMAIN before.messages :
          /\ b # c /\ b # last.message_id /\ c # last.message_id
          /\ before.messages[b].parent_id = last.message_id
          /\ before.messages[c].parent_id = b
          /\ b \notin DOMAIN messages /\ c \notin DOMAIN messages

(* ---------------------------------------------------------------------- *)
(* C2  After delete_thread(t), thread t does not exist and no message has  *)
(* thread_id = t, however many messages t had and however nested.          *)
(* ---------------------------------------------------------------------- *)
C2_DeleteThreadCascades ==
    last.op = "delete_thread" =>
        /\ last.thread_id \notin DOMAIN threads
        /\ \A m \in DOMAIN messages : messages[m].thread_id # last.thread_id
        /\ ~ get_thread_with_messages(last.thread_id).found

\* delete_thread removed an existing thread that held a reply to one of its
\* own messages.
C2_Witness ==
    /\ last.op = "delete_thread"
    /\ last.thread_id \in DOMAIN before.threads
    /\ \E a, b \in DOMAIN before.messages :
          /\ a # b
          /\ before.messages[a].thread_id = last.thread_id
          /\ before.messages[b].thread_id = last.thread_id
          /\ before.messages[b].parent_id = a
    /\ last.thread_id \notin DOMAIN threads

(* ---------------------------------------------------------------------- *)
(* C3  I2: every message with a parent_id has the thread_id of the message *)
(* its parent_id refers to.                                                *)
(* ---------------------------------------------------------------------- *)
C3_ParentInSameThread ==
    \A m \in DOMAIN messages :
        (messages[m].parent_id # NULL /\ messages[m].parent_id \in DOMAIN messages) =>
            messages[messages[m].parent_id].thread_id = messages[m].thread_id

(* ---------------------------------------------------------------------- *)
(* C4  I3: the parent_id relation is acyclic; no message is its own        *)
(* ancestor, in particular no message has its own id as parent_id.         *)
(* ---------------------------------------------------------------------- *)
C4_Acyclic ==
    \A m \in DOMAIN messages : m \notin Ancestors(messages, m)

(* ---------------------------------------------------------------------- *)
(* C5  I1: every message's thread_id refers to a thread that exists.       *)
(* ---------------------------------------------------------------------- *)
C5_ThreadExists ==
    \A m \in DOMAIN messages : messages[m].thread_id \in DOMAIN threads

\* A create_message naming a thread that does not exist was refused while
\* the table is not empty, and a thread has been deleted before.
C5_Witness ==
    /\ last.op = "create_message"
    /\ last.result = "IntegrityError"
    /\ last.thread_id # NULL
    /\ last.thread_id \notin DOMAIN threads
    /\ last.thread_id <= seq_threads
    /\ messages # <<>>

(* ---------------------------------------------------------------------- *)
(* C6  I4: every message with a parent_id refers to a message that exists; *)
(* no delete leaves a message whose parent has been removed.               *)
(* ---------------------------------------------------------------------- *)
C6_NoOrphans ==
    \A m \in DOMAIN messages :
        messages[m].parent_id # NULL => messages[m].parent_id \in DOMAIN messages

\* A delete removed a reply, and another reply survives with its parent.
C6_Witness ==
    /\ last.op \in {"delete_message", "delete_thread"}
    /\ \E r \in DOMAIN before.messages \ DOMAIN messages :
          before.messages[r].parent_id \notin {NULL, r}
    /\ \E m \in DOMAIN messages : messages[m].parent_id \notin {NULL, m}

(* ---------------------------------------------------------------------- *)
(* C7  delete_thread(id) and delete_message(id) with an id that has no row *)
(* succeed and leave threads and messages (layout_data included) as they   *)
(* were.                                                                   *)
(* ---------------------------------------------------------------------- *)
C7_DeleteMissingIsNoOp ==
    /\ (last.op = "delete_thread" /\ last.thread_id \notin DOMAIN before.threads) =>
          last.result = "ok" /\ Snapshot = before
    /\ (last.op = "delete_message" /\ last.message_id \notin DOMAIN before.messages) =>
          last.result = "ok" /\ Snapshot = before

\* A delete of an id that was assigned once and whose row is already gone,
\* on a store that still holds a thread and a message with layout_data.
C7_Witness ==
    /\ \/ /\ last.op = "delete_thread"
          /\ last.thread_id \notin DOMAIN before.threads
          /\ last.thread_id <= seq_threads
       \/ /\ last.op = "delete_message"
          /\ last.message_id \notin DOMAIN before.messages
          /\ last.message_id <= seq_messages
    /\ threads # <<>>
    /\ \E m \in DOMAIN messages : messages[m].layout_data # NoText

(* ---------------------------------------------------------------------- *)
(* C8  After update_thread_layouts(t, layouts) returns, every entry        *)
(* m -> blob whose m is a message of thread t is shown by                  *)
(* get_thread_with_messages(t) with layout_data = blob, whatever m's       *)
(* layout_data was before.                                                 *)
(* ---------------------------------------------------------------------- *)
C8_LayoutRoundTrip ==
    (last.op = "update_thread_layouts" /\ last.result = "ok") =>
        \A i \in DOMAIN last.layouts :
            LET m == last.layouts[i][1]
                blob == last.layouts[i][2]
            IN  (m \in DOMAIN messages /\ messages[m].thread_id = last.thread_id) =>
                    /\ ListedRow(last.thread_id, m) # {}
                    /\ \A r \in ListedRow(last.thread_id, m) : r.layout_data = blob

\* One call set a blob on a message that had none and replaced the blob of
\* another message by a different one.
C8_Witness ==
    /\ last.op = "update_thread_layouts"
    /\ last.result = "ok"
    /\ \E i, j \in DOMAIN last.layouts :
          LET m == last.layouts[i][1]
              n == last.layouts[j][1]
          IN  /\ m \in DOMAIN messages /\ n \in DOMAIN messages
              /\ messages[m].thread_id = last.thread_id
              /\ messages[n].thread_id = last.thread_id
              /\ before.messages[m].layout_data = NoText
              /\ before.messages[n].layout_data \in Blobs \ {last.layouts[j][2]}

(* ---------------------------------------------------------------------- *)
(* C9  After clear_thread_layouts(t), every message of thread t has no     *)
(* layout_data; the call succeeds also when t has no message or no row.    *)
(* ---------------------------------------------------------------------- *)
C9_ClearThreadLayouts ==
    last.op = "clear_thread_layouts" =>
        /\ last.result = "ok"
        /\ \A m \in DOMAIN messages :
              messages[m].thread_id = last.thread_id => messages[m].layout_data = NoText

\* The call cleared the blobs of two messages of the thread.
C9_Witness ==
    /\ last.op = "clear_thread_layouts"
    /\ \E m, n \in DOMAIN messages :
          /\ m # n
          /\ messages[m].thread_id = last.thread_id
          /\ messages[n].thread_id = last.thread_id
          /\ before.messages[m].layout_data \in Blobs
          /\ before.messages[n].layout_data \in Blobs

(* ---------------------------------------------------------------------- *)
(* C10  update_thread_layouts(t1, layouts) never changes the layout_data   *)
(* of a message of another thread; entries naming such a message or no     *)
(* message are skipped without error and the other entries are applied.    *)
(* ---------------------------------------------------------------------- *)
Skipped(entry) ==
    \/ entry[1] \notin DOMAIN before.messages
    \/ before.messages[entry[1]].thread_id # last.thread_id

C10_LayoutScoping ==
    last.op = "update_thread_layouts" =>
        /\ \A m \in DOMAIN before.messages :
              before.messages[m].thread_id # last.thread_id =>
                  /\ m \in DOMAIN messages
                  /\ messages[m].layout_data = before.messages[m].layout_data
        /\ (\A i \in DOMAIN last.layouts : last.layouts[i][2] # Unbindable) =>
              /\ last.result = "ok"
              /\ \A i \in DOMAIN last.layouts :
                    ~ Skipped(last.layouts[i]) =>
                        messages[last.layouts[i][1]].layout_data = last.layouts[i][2]

\* One call named a message of another thread, with a blob that message
\* did not have, and a message of its own thread, whose blob it changed.
C10_Witness ==
    /\ last.op = "update_thread_layouts"
    /\ last.result = "ok"
    /\ \E i, j \in DOMAIN last.layouts :
          /\ last.layouts[i][1] \in DOMAIN before.messages
          /\ Skipped(last.layouts[i])
          /\ before.messages[last.layouts[i][1]].layout_data # last.layouts[i][2]
          /\ ~ Skipped(last.layouts[j])
          /\ before.messages[last.layouts[j][1]].layout_data # last.layouts[j][2]

(* ---------------------------------------------------------------------- *)
(* C11  create_thread with an empty or missing title fails with a          *)
(* ValidationError and the set of threads is unchanged.                    *)
(* ---------------------------------------------------------------------- *)
C11_EmptyTitleRejected ==
    (last.op = "create_thread" /\ last.text \in {<<Missing>>, <<"">>}) =>
        /\ last.result = "ValidationError"
        /\ threads = before.threads

(* ---------------------------------------------------------------------- *)
(* C12  create_message fails with a ValidationError and inserts nothing    *)
(* whenever threadId, writerName or content is missing or empty.           *)
(* ---------------------------------------------------------------------- *)
C12_EmptyFieldRejected ==
    (/\ last.op = "create_message"
     /\ \/ last.thread_id = NULL
        \/ last.text[1] \in {Missing, ""}
        \/ last.text[2] \in {Missing, ""}) =>
        /\ last.result = "ValidationError"
        /\ Snapshot = before

(* ---------------------------------------------------------------------- *)
(* C13  create_message whose thread_id names no existing thread, or whose  *)
(* non-null parent_id names no existing message, fails with an error that  *)
(* reaches the caller and leaves both tables unchanged.                    *)
(* ---------------------------------------------------------------------- *)
C13_DanglingReferenceRejected ==
    (/\ last.op = "create_message"
     /\ \/ last.thread_id \notin DOMAIN before.threads
        \/ last.message_id # NULL /\ last.message_id \notin DOMAIN before.messages) =>
        /\ last.result \notin {"ok", ""}
        /\ Snapshot = before

(* ---------------------------------------------------------------------- *)
(* C14  get_all_threads returns exactly one entry per existing thread,     *)
(* threads without messages included, and the message_count of an entry is *)
(* the number of messages that have that thread_id now, also after a       *)
(* cascade.                                                                *)
(* ---------------------------------------------------------------------- *)
C14_ListThreadsCounts ==
    /\ {r.id : r \in get_all_threads} = DOMAIN threads
    /\ \A t \in DOMAIN threads :
           /\ Cardinality({r \in get_all_threads : r.id = t}) = 1
           /\ \A r \in get_all_threads :
                  r.id = t => r.message_count =
                      Cardinality({m \in DOMAIN messages : messages[m].thread_id = t})

\* A delete_message has just cascaded to a reply; its thread keeps a message
\* and is listed with 1, another thread has no message and is listed with 0.
C14_Witness ==
    /\ last.op = "delete_message"
    /\ Cardinality(DOMAIN before.messages \ DOMAIN messages) >= 2
    /\ \E t, u \in DOMAIN threads :
           /\ before.messages[last.message_id].thread_id = t
           /\ \E r \in get_all_threads : r.id = t /\ r.message_count = 1
           /\ \E r \in get_all_threads : r.id = u /\ r.message_count = 0

(* ---------------------------------------------------------------------- *)
(* C17  The id of a new thread or message differs from every id handed out *)
(* before, those of deleted rows included, and a new message has no        *)
(* layout_data; so an update_thread_layouts or delete_message that names   *)
(* the id of a deleted message changes no message, and no later message    *)
(* takes that id.                                                          *)
(* ---------------------------------------------------------------------- *)
C17_FreshIds ==
    [][/\ \A t \in DOMAIN threads' \ DOMAIN threads : t \notin issued.threads
       /\ \A m \in DOMAIN messages' \ DOMAIN messages :
              m \notin issued.messages /\ messages'[m].layout_data = NoText
       /\ \A m \in issued.messages \ DOMAIN messages : m \notin DOMAIN messages'
       /\ \A d \in issued.messages \ DOMAIN messages :
              (\/ last'.op = "delete_message" /\ last'.message_id = d
               \/ last'.op = "update_thread_layouts"
                  /\ \E i \in DOMAIN last'.layouts : last'.layouts[i][1] = d)
              => messages' = messages]_vars

\* A message has just been created after another was deleted.
C17_Witness ==
    /\ last.op = "create_message" /\ last.result = "ok"
    /\ issued.messages \ (DOMAIN before.messages \cup {last.id}) # {}
    /\ last.id \in DOMAIN messages /\ messages[last.id].layout_data = NoText

(* ---------------------------------------------------------------------- *)
(* C18  delete_thread(t) removes only thread t and the messages whose      *)
(* thread_id is t; every other thread and message is unchanged.            *)
(* ---------------------------------------------------------------------- *)
C18_DeleteThreadFrame ==
    last.op = "delete_thread" =>
        /\ DOMAIN before.threads \ DOMAIN threads \subseteq {last.thread_id}
        /\ \A u \in DOMAIN before.threads \ {last.thread_id} :
               u \in DOMAIN threads /\ threads[u] = before.threads[u]
        /\ \A m \in DOMAIN before.messages :
               before.messages[m].thread_id # last.thread_id =>
                   m \in DOMAIN messages /\ messages[m] = before.messages[m]

(* ---------------------------------------------------------------------- *)
(* C19  update_thread_layouts is all-or-nothing within one call: when an   *)
(* entry raises partway through the loop, none of the entries before it is *)
(* persisted.                                                              *)
(* ---------------------------------------------------------------------- *)
C19_LayoutsAllOrNothing ==
    (last.op = "update_thread_layouts" /\ last.result # "ok") => Snapshot = before

\* The call raised at a later entry after an earlier entry had matched a
\* message of the thread and carried a value the message did not have.
C19_Witness ==
    /\ last.op = "update_thread_layouts" /\ last.result = "ProgrammingError"
    /\ \E i, j \in DOMAIN last.layouts :
           /\ i < j
           /\ last.layouts[j][2] = Unbindable
           /\ \A k \in 1..i : last.layouts[k][2] # Unbindable
           /\ LayoutTarget(before.messages, last.thread_id, last.layouts[i][1]) # {}
           /\ before.messages[last.layouts[i][1]].layout_data # last.layouts[i][2]

(* ---------------------------------------------------------------------- *)
(* C20  update_thread_layouts, clear_thread_layouts and                    *)
(* update_message_layout never create or delete a thread or a message and  *)
(* never change thread_id, parent_id, writer_name or content;              *)
(* clear_thread_layouts(t) leaves the layout_data of every message outside *)
(* t unchanged.                                                            *)
(* ---------------------------------------------------------------------- *)
C20_LayoutOpsTouchOnlyLayout ==
    last.op \in {"update_thread_layouts", "clear_thread_layouts", "update_message_layout"} =>
        /\ threads = before.threads
        /\ DOMAIN messages = DOMAIN before.messages
        /\ \A m \in DOMAIN messages :
               /\ messages[m].thread_id = before.messages[m].thread_id
               /\ messages[m].parent_id = before.messages[m].parent_id
               /\ messages[m].writer_name = before.messages[m].writer_name
               /\ messages[m].content = before.messages[m].content
               /\ (last.op = "clear_thread_layouts" /\ messages[m].thread_id # last.thread_id)
                      => messages[m].layout_data = before.messages[m].layout_data

\* clear_thread_layouts(t) has cleared a layout in t while a message of
\* another thread holds one.
C20_Witness ==
    /\ last.op = "clear_thread_layouts"
    /\ \E m, n \in DOMAIN messages :
           /\ messages[m].thread_id = last.thread_id
           /\ before.messages[m].layout_data # NoText
           /\ messages[m].layout_data = NoText
           /\ messages[n].thread_id # last.thread_id
           /\ messages[n].layout_data # NoText

(* ---------------------------------------------------------------------- *)
(* C15  While a delete_message or delete_thread is in flight, the message  *)
(* list a concurrent get_thread_with_messages returns never holds a        *)
(* descendant of a deleted message without that message, nor lacks the     *)
(* message while holding some but not all of its descendants.              *)
(* ---------------------------------------------------------------------- *)
\* The caller has its message list.
HasList(p) ==
    /\ proc[p].op.kind = "get_thread_with_messages"
    /\ proc[p].result.found
    /\ proc[p].todo = <<>>
    /\ proc[p].pc # "idle"

\* The rows the DELETE of caller q names, in the table as the DELETE found it.
Deleted(q) ==
    IF proc[q].op.kind = "delete_message"
    THEN {proc[q].op.message_id} \cap DOMAIN proc[q].snap
    ELSE IF proc[q].op.kind = "delete_thread"
    THEN {x \in DOMAIN proc[q].snap : proc[q].snap[x].thread_id = proc[q].op.thread_id}
    ELSE {}

Descendants(q, x) == Cascade(proc[q].snap, {x}) \ {x}

C15_NoPartialCascadeObserved ==
    \A p, q \in Callers :
        (p # q /\ HasList(p)) =>
            \A x \in Deleted(q) :
                LET seen == proc[p].result.ids \cap Descendants(q, x) IN
                /\ seen # {} => x \in proc[p].result.ids
                /\ x \notin proc[p].result.ids => seen \in {{}, Descendants(q, x)}

\* The same for the messages of the thread the reader asked for: of a
\* deleted message of that thread and its descendants in that thread, the
\* list holds all or none.
InThread(q, t, S) == {x \in S : proc[q].snap[x].thread_id = t}

NoPartialCascadeInThread ==
    \A p, q \in Callers :
        (p # q /\ HasList(p)) =>
            \A x \in InThread(q, proc[p].op.thread_id, Deleted(q)) :
                LET whole == InThread(q, proc[p].op.thread_id, Cascade(proc[q].snap, {x}))
                    seen == proc[p].result.ids \cap whole
                IN  x \in proc[p].result.ids \/ seen = {}

(* ---------------------------------------------------------------------- *)
(* C16  Every call follows acquire, execute, commit, release: the          *)
(* connection it opened is closed on every way out of the body (return,    *)
(* early return, an exception raised by a statement), and commit happens   *)
(* only when the body finished without an exception.                       *)
(* ---------------------------------------------------------------------- *)
Committing(p) == {i \in DOMAIN proc[p].trace : proc[p].trace[i] = "commit"}

C16_ConnectionLifecycle ==
    \A p \in Callers :
        LET me == proc[p]
            n == Len(me.trace)
        IN  /\ me.conn = "open" <=> me.pc \in {"body", "commit", "close"}
            /\ me.txn => me.conn = "open"
            /\ Committing(p) # {} => me.raised = "" /\ me.todo = <<>>
            /\ me.pc = "done" =>
                   /\ me.conn = "closed"
                   /\ me.trace[1] = "acquire"
                   /\ me.trace[n] = "release"
                   /\ \A i \in 2..(n - 1) : me.trace[i] \in {"execute", "commit"}
                   /\ Committing(p) = IF me.raised = "" THEN {n - 1} ELSE {}

\* Caller a has left a call whose INSERT raised, caller b one that returned
\* early because the thread was not found; a third way, the plain return, is
\* the delete_message b ran before.
C16_Witness ==
    /\ proc["a"].pc = "done" /\ proc["a"].raised = "IntegrityError"
    /\ proc["a"].op.kind = "create_message"
    /\ proc["b"].pc = "done" /\ proc["b"].op.kind = "get_thread_with_messages"
    /\ ~proc["b"].result.found
    /\ proc["b"].trace = <<"acquire", "execute", "commit", "release">>

====
